---- MODULE Spec2Model ----
(***************************************************************************)
(* A model of swagger_main.py: DynamicClassGenerator, which turns an       *)
(* OpenAPI document into one generated Python module per operation.        *)
(*                                                                         *)
(* Representation.                                                         *)
(*  - A JSON object read by key (a schema node, an operation's details)    *)
(*    is a function from field names to values; k \in DOMAIN d is Python's *)
(*    "k in d".                                                            *)
(*  - A dict that the code iterates (properties, class_attributes,         *)
(*    nested_classes) is a sequence of <<key, value>> pairs in insertion   *)
(*    order, with Python's update-in-place on an existing key.             *)
(*  - A string the code splits or rewrites (a reference, a path) is a      *)
(*    sequence of one-character or one-word tokens.                        *)
(*  - Generated source text is kept as the structure the template is       *)
(*    filled with: an expression is a record tagged by the f-string that   *)
(*    builds it.                                                           *)
(*  - A Python exception is the value [exc |-> kind]; nothing in the file  *)
(*    catches one, so it propagates to the caller of generate_classes.     *)
(***************************************************************************)
EXTENDS Integers, Sequences, FiniteSets, TLC

VARIABLES
    schemas,        \* self.json_data['components']['schemas']
    paths,          \* self.json_data['paths']: <<path, <<method, details>>*>>*
    idx,            \* number of (path, method) iterations of generate_classes completed
    status,         \* "idle" | "running" | "done" | "raised"
    response,       \* the local variable `response` of generate_classes
    written,        \* the files written so far, in order
    pp_in,          \* parse_properties: the object schema parsed and the prefix_var
    pp_out,         \* parse_properties: class_attributes / nested_classes afterwards
    gp_parameters,  \* parameter grouping: details['parameters']
    gp_out,         \* parameter grouping: classes_list, nested class text, attributes
    ss_in,          \* simplify_swagger_definition: the schema given
    ss_out          \* simplify_swagger_definition: the skeleton returned

vars == <<schemas, paths, idx, status, response, written,
          pp_in, pp_out, gp_parameters, gp_out, ss_in, ss_out>>

(***************************************************************************)
(* Bounds of the model.                                                    *)
(***************************************************************************)
MaxProps == 2        \* properties of the object schema given to parse_properties
MaxParams == 3       \* length of a parameters list
MaxOps == 2          \* operations of a document
MaxRecursion == 4    \* nested parse_properties / simplify frames before RecursionError
MaxNesting == 2      \* arrays and objects around a node given to simplify_swagger_definition

(***************************************************************************)
(* Python values.                                                          *)
(***************************************************************************)
None == [none |-> TRUE]
Unbound == [unbound |-> TRUE]
Raise(kind) == [exc |-> kind]
IsExc(r) == "exc" \in DOMAIN r      \* r is a record: a result or an exception
EmptyDict == <<>>

\* Propagation: the statement after a call runs only if the call returned.
Then(r, Continue(_)) == IF IsExc(r) THEN r ELSE Continue(r)
\* The same where the exception carries the definitions table along.
WithTable(r, table) == IF IsExc(r) THEN [exc |-> r.exc, table |-> table] ELSE r
\* node['properties'], or its KeyError
PropertiesOf(node) ==
    IF IsExc(node) THEN node
    ELSE IF "properties" \notin DOMAIN node THEN Raise("KeyError")
    ELSE [properties |-> node["properties"]]

Range(s) == {s[i] : i \in DOMAIN s}
Last(s) == s[Len(s)]

\* d.get(k, default) on a JSON object
Get(d, k, default) == IF k \in DOMAIN d THEN d[k] ELSE default

\* An insertion-ordered dict as a sequence of <<key, value>>.
Keys(od) == {od[i][1] : i \in DOMAIN od}
At(od, k) == od[CHOOSE i \in DOMAIN od : od[i][1] = k][2]
Put(od, k, v) ==
    IF k \in Keys(od)
    THEN [i \in DOMAIN od |-> IF od[i][1] = k THEN <<k, v>> ELSE od[i]]
    ELSE Append(od, <<k, v>>)

\* str.split(sep) on a token sequence: the pieces between separators.
RECURSIVE Split(_, _)
Split(s, sep) ==
    IF \A i \in DOMAIN s : s[i] # sep
    THEN <<s>>
    ELSE LET k == CHOOSE i \in DOMAIN s :
                      s[i] = sep /\ \A j \in 1..(i - 1) : s[j] # sep
         IN <<SubSeq(s, 1, k - 1)>> \o Split(SubSeq(s, k + 1, Len(s)), sep)

\* The string a token sequence spells.
RECURSIVE Text(_)
Text(s) == IF s = <<>> THEN "" ELSE Head(s) \o Text(Tail(s))

(***************************************************************************)
(* Generated expressions (the right-hand sides of "self.<name> = ...").    *)
(***************************************************************************)
\* f"data.get('{name}')"                                   lines 101, 597, 602
DataGet(name) == [kind |-> "get", key |-> name]
\* f'{nested_class_name}()'                                line 585
BareCall(cls) == [kind |-> "bare", cls |-> cls]
\* f"{prefix_var}.{prop_name}(data.get('{prop_name}'))"    line 636
CtorCall(prefix, name) == [kind |-> "ctor", prefix |-> prefix, cls |-> name, key |-> name]
\* f'[{prefix_var}.{cls}({it}) for {it} in data.get(..)] if isinstance(.., list) else []'
ListTransform(prefix, cls, it, key) ==
    [kind |-> "list", prefix |-> prefix, cls |-> cls, iter |-> it, key |-> key]
\* value.endswith('()'): of the four templates only the bare call ends so.
EndsWithCall(expr) == expr # None /\ expr.kind = "bare"

(***************************************************************************)
(* Reference resolution.                                                   *)
(***************************************************************************)
Ref(name) == <<"#", "/", "components", "/", "schemas", "/", name>>

resolve_reference(reference, table) ==
    LET ref_name == Text(Last(Split(reference, "/")))
    IN IF ref_name \in DOMAIN table THEN table[ref_name] ELSE Raise("KeyError")

(***************************************************************************)
(* generate_parameter: the access code and the Parameter(...) metadata.    *)
(***************************************************************************)
RequiredLookup(param_name, param_schema) ==
    param_name \in Range(Get(param_schema, "required", <<>>))

generate_parameter(param_name, param_schema) ==
    [code |-> DataGet(param_name),
     meta |-> [name |-> param_name,
               required |-> RequiredLookup(param_name, param_schema),
               type_ |-> Get(param_schema, "type", "")]]

(***************************************************************************)
(* parse_properties.                                                       *)
(***************************************************************************)
generate_nested_init(attributes_dict) ==
    [i \in DOMAIN attributes_dict |->
        [target |-> attributes_dict[i][1], value |-> attributes_dict[i][2]]]

get_nested_class_code(nested_class_name, nested_class_code) ==
    [class |-> nested_class_name, init |-> nested_class_code]

NestedClassName(prop_name) == prop_name
IterVal(prop_name) == prop_name \o "_"
ShadowName(prop_name) == prop_name \o "_data"

\* ListAttributes without the assignment of the <name>_data attribute.
ListAttributesWithoutShadow(st, sub, prop_name, prefix_var) ==
    [attrs |-> Put(st.attrs, prop_name,
                   ListTransform(prefix_var, NestedClassName(prop_name),
                                 IterVal(prop_name), prop_name)),
     nested |-> Put(sub.nested, NestedClassName(prop_name),
                    get_nested_class_code(NestedClassName(prop_name),
                                          generate_nested_init(sub.attrs)))]

\* The three places that build a nested class and a list transform end alike
\* (lines 592-597, 610-615, 622-628).
ListAttributes(st, sub, prop_name, prefix_var) ==
    [attrs |-> Put(Put(st.attrs, prop_name,
                       ListTransform(prefix_var, NestedClassName(prop_name),
                                     IterVal(prop_name), prop_name)),
                   ShadowName(prop_name), DataGet(prop_name)),
     nested |-> Put(sub.nested, NestedClassName(prop_name),
                    get_nested_class_code(NestedClassName(prop_name),
                                          generate_nested_init(sub.attrs)))]

RECURSIVE parse_properties(_, _, _, _, _, _)
RECURSIVE ParseFrom(_, _, _, _, _, _)

\* The nested class of a dict of properties: a recursive call with a fresh
\* nested_attributes and the shared nested_classes.
NestedOf(properties, st, prefix_var, table, depth) ==
    parse_properties(properties, EmptyDict, st.nested, prefix_var, table, depth + 1)

\* lines 575-585: `if '$ref' in prop_schema`
RefBranch(prop_name, prop_schema, st, prefix_var, table, depth) ==
    IF "$ref" \notin DOMAIN prop_schema THEN st
    ELSE Then(PropertiesOf(resolve_reference(prop_schema["$ref"], table)),
              LAMBDA resolved :
              Then(NestedOf(resolved.properties, st, prefix_var, table, depth),
                   LAMBDA sub :
                   [attrs |-> Put(st.attrs, prop_name, BareCall(NestedClassName(prop_name))),
                    nested |-> Put(sub.nested, NestedClassName(prop_name),
                                   get_nested_class_code(
                                       NestedClassName(prop_name),
                                       generate_nested_init(sub.attrs)))]))

\* items_schema["type"] == "object" -> items_schema["properties"], with the
\* KeyError of either key; an item of another type has no properties to parse.
ItemProperties(items_schema, table) ==
    IF "$ref" \in DOMAIN items_schema
    THEN PropertiesOf(resolve_reference(items_schema["$ref"], table))
    ELSE IF "type" \notin DOMAIN items_schema THEN Raise("KeyError")
    ELSE IF items_schema["type"] = "object" THEN PropertiesOf(items_schema)
    ELSE [plain |-> TRUE]

\* lines 599-631: `elif prop_schema.get('type', '') == "array" and "items" in prop_schema`
ArrayBranch(prop_name, prop_schema, st, prefix_var, table, depth) ==
    IF DOMAIN prop_schema["items"] = {}
    THEN [st EXCEPT !.attrs = Put(st.attrs, prop_name, DataGet(prop_name))]
    ELSE Then(ItemProperties(prop_schema["items"], table),
              LAMBDA element :
              IF "plain" \in DOMAIN element
              THEN [st EXCEPT !.attrs =
                       Put(st.attrs, prop_name,
                           generate_parameter(prop_name, prop_schema["items"]).code)]
              ELSE Then(NestedOf(element.properties, st, prefix_var, table, depth),
                        LAMBDA sub : ListAttributes(st, sub, prop_name, prefix_var)))

\* PlainBranch without the test of line 635: the bare call is overwritten.
PlainBranchWithoutCallTest(prop_name, prop_schema, st, prefix_var) ==
    [st EXCEPT !.attrs = Put(st.attrs, prop_name,
                             generate_parameter(prop_name, prop_schema).code)]

\* lines 633-638: the final `else`
PlainBranch(prop_name, prop_schema, st, prefix_var) ==
    LET param_code == generate_parameter(prop_name, prop_schema).code
        current == IF prop_name \in Keys(st.attrs) THEN At(st.attrs, prop_name) ELSE None
    IN IF EndsWithCall(current)
       THEN [st EXCEPT !.attrs = Put(st.attrs, prop_name, CtorCall(prefix_var, prop_name))]
       ELSE [st EXCEPT !.attrs = Put(st.attrs, prop_name, param_code)]

\* lines 586-638: the if / elif / else that follows the reference test
ShapeBranch(prop_name, prop_schema, st, prefix_var, table, depth) ==
    IF Get(prop_schema, "type", "") = "object" /\ "properties" \in DOMAIN prop_schema
    THEN Then(NestedOf(prop_schema["properties"], st, prefix_var, table, depth),
              LAMBDA sub : ListAttributes(st, sub, prop_name, prefix_var))
    ELSE IF Get(prop_schema, "type", "") = "array" /\ "items" \in DOMAIN prop_schema
    THEN ArrayBranch(prop_name, prop_schema, st, prefix_var, table, depth)
    ELSE PlainBranch(prop_name, prop_schema, st, prefix_var)

\* One iteration of the loop of line 574.
ParseProperty(prop_name, prop_schema, st, prefix_var, table, depth) ==
    Then(RefBranch(prop_name, prop_schema, st, prefix_var, table, depth),
         LAMBDA st1 : ShapeBranch(prop_name, prop_schema, st1, prefix_var, table, depth))

ParseFrom(properties, i, st, prefix_var, table, depth) ==
    IF i > Len(properties) THEN st
    ELSE Then(ParseProperty(properties[i][1], properties[i][2], st, prefix_var, table, depth),
              LAMBDA st1 : ParseFrom(properties, i + 1, st1, prefix_var, table, depth))

\* parse_properties(properties, class_attributes, nested_classes, class_name,
\* suffix, prefix_var): class_name and suffix reach no output and are left out;
\* the two dicts it fills in place are returned as [attrs, nested].
parse_properties(properties, class_attributes, nested_classes, prefix_var, table, depth) ==
    IF depth > MaxRecursion THEN Raise("RecursionError")
    ELSE ParseFrom(properties, 1, [attrs |-> class_attributes, nested |-> nested_classes],
                   prefix_var, table, depth)

\* param_meta_code of lines 630 and 634, per property that reaches one of them;
\* parse_properties itself drops the value.
ParamMetaCodes(properties) ==
    [i \in DOMAIN properties |->
        LET prop_name == properties[i][1]
            prop_schema == properties[i][2]
        IN IF Get(prop_schema, "type", "") = "object" /\ "properties" \in DOMAIN prop_schema
           THEN None
           ELSE IF Get(prop_schema, "type", "") = "array" /\ "items" \in DOMAIN prop_schema
           THEN IF DOMAIN prop_schema["items"] = {}
                   \/ "$ref" \in DOMAIN prop_schema["items"]
                   \/ Get(prop_schema["items"], "type", "") = "object"
                THEN None
                ELSE generate_parameter(prop_name, prop_schema["items"]).meta
           ELSE generate_parameter(prop_name, prop_schema).meta]

(***************************************************************************)
(* What the generated text computes at run time, for the templates above:  *)
(* data.get(key), the nested class constructor, and the list comprehension *)
(* guarded by isinstance(.., list).  A raw value is None, a scalar, a dict *)
(* or a list.                                                              *)
(***************************************************************************)
RawList(items) == [list |-> items]
IsList(raw) == "list" \in DOMAIN raw
Instance(prefix, cls, raw) == [instance_of |-> <<prefix, cls>>, data |-> raw]

EvalExpr(expr, data) ==
    LET raw == Get(data, expr.key, None)
    IN CASE expr.kind = "get" -> raw
         [] expr.kind = "ctor" -> Instance(expr.prefix, expr.cls, raw)
         [] expr.kind = "list" ->
                IF IsList(raw)
                THEN [i \in DOMAIN raw.list |-> Instance(expr.prefix, expr.cls, raw.list[i])]
                ELSE <<>>

(***************************************************************************)
(* The documents explored.  One definitions table; schema nodes of every   *)
(* shape parse_properties distinguishes.                                   *)
(***************************************************************************)
StringNode == [type |-> "string"]
IntegerNode == [type |-> "integer"]
RefTo(name) == "$ref" :> Ref(name)
ObjectOf(properties) == [type |-> "object", properties |-> properties]
ArrayOf(items) == [type |-> "array", items |-> items]

Definitions ==
    [A |-> [type |-> "object", required |-> <<"x">>,
            properties |-> << <<"x", StringNode>>, <<"y", IntegerNode>> >>],
     D |-> ObjectOf(<< <<"z", StringNode>> >>),
     C |-> ObjectOf(<< <<"p", RefTo("D")>> >>),
     R |-> ObjectOf(<< <<"r", RefTo("D") @@ [properties |-> << <<"extra", StringNode>> >>]>> >>),
     L |-> ArrayOf(RefTo("A"))]

PropNames == {"p", "q", "p_data"}

PropSchemas ==
    { StringNode,
      [type |-> "integer", description |-> "d", required |-> <<"q">>],
      RefTo("A"), RefTo("C"), RefTo("Z"),
      RefTo("D") @@ ObjectOf(<< <<"a", StringNode>> >>),
      ObjectOf(<< <<"a", StringNode>> >>),
      ArrayOf(RefTo("A")),
      ArrayOf(ObjectOf(<< <<"a", StringNode>>, <<"b", IntegerNode>> >>)),
      ArrayOf(StringNode),
      ArrayOf(EmptyDict),
      ArrayOf([type |-> "object"]),
      ArrayOf([description |-> "d"]),
      [description |-> "d"] }

RECURSIVE PropertyDicts(_)
PropertyDicts(n) ==
    IF n = 0 THEN {EmptyDict}
    ELSE LET shorter == PropertyDicts(n - 1)
         IN shorter \cup
            { Append(d, <<k, s>>) :
                d \in {e \in shorter : Len(e) = n - 1},
                k \in PropNames, s \in PropSchemas }

ValidDicts(n) == {d \in PropertyDicts(n) : Len(d) >= 1 /\ Cardinality(Keys(d)) = Len(d)}

ParseInputs ==
    { [schema |-> ObjectOf(d) @@ req, prefix_var |-> pv] :
        d \in ValidDicts(MaxProps),
        req \in {EmptyDict, [required |-> <<"p">>]},
        pv \in {"RequestNestedAttributes"} }

(***************************************************************************)
(* The specification of parse_properties as a function of its input.       *)
(***************************************************************************)
InitParse ==
    /\ pp_in \in ParseInputs
    /\ pp_out = None
    /\ schemas = Definitions
    /\ paths = <<>>
    /\ idx = 0
    /\ status = "idle"
    /\ response = Unbound
    /\ written = <<>>
    /\ gp_parameters = <<>>
    /\ gp_out = None
    /\ ss_in = None
    /\ ss_out = None

ParseProperties ==
    /\ pp_in # None
    /\ pp_out = None
    /\ pp_out' = [result |-> parse_properties(pp_in.schema["properties"], EmptyDict,
                                              EmptyDict, pp_in.prefix_var, schemas, 1),
                  metas |-> ParamMetaCodes(pp_in.schema["properties"])]
    /\ UNCHANGED <<schemas, paths, idx, status, response, written, pp_in,
                   gp_parameters, gp_out, ss_in, ss_out>>

NextParse == ParseProperties

SpecParse == InitParse /\ [][NextParse]_vars

(***************************************************************************)
(* Vocabulary of the claims about parse_properties.                        *)
(***************************************************************************)
PrimitiveKinds == {"string", "integer", "number", "boolean"}
IsPrimitive(schema) ==
    "$ref" \notin DOMAIN schema /\ Get(schema, "type", "") \in PrimitiveKinds
OnlyReference(schema) == DOMAIN schema = {"$ref"}
IsArrayOfReference(schema) ==
    /\ DOMAIN schema = {"type", "items"} /\ schema["type"] = "array"
    /\ "$ref" \in DOMAIN schema["items"]
IsArrayOfInlineObject(schema) ==
    /\ DOMAIN schema = {"type", "items"} /\ schema["type"] = "array"
    /\ "$ref" \notin DOMAIN schema["items"]
    /\ Get(schema["items"], "type", "") = "object"
    /\ "properties" \in DOMAIN schema["items"]

\* The property becomes a list transform plus a <name>_data shadow.
ListValued(schema) ==
    \/ Get(schema, "type", "") = "object" /\ "properties" \in DOMAIN schema
    \/ /\ Get(schema, "type", "") = "array" /\ "items" \in DOMAIN schema
       /\ DOMAIN schema["items"] # {}
       /\ \/ "$ref" \in DOMAIN schema["items"]
          \/ Get(schema["items"], "type", "") = "object"
ProducesNested(schema) == "$ref" \in DOMAIN schema \/ ListValued(schema)

PropertiesOrEmpty(node) ==
    IF ~IsExc(node) /\ "properties" \in DOMAIN node THEN node["properties"] ELSE EmptyDict

\* The dicts of properties that building one property recurses into.
SubProperties(schema, table) ==
    (IF "$ref" \in DOMAIN schema
     THEN {PropertiesOrEmpty(resolve_reference(schema["$ref"], table))} ELSE {})
    \cup
    (IF Get(schema, "type", "") = "object" /\ "properties" \in DOMAIN schema
     THEN {schema["properties"]} ELSE {})
    \cup
    (IF Get(schema, "type", "") = "array" /\ "items" \in DOMAIN schema
        /\ DOMAIN schema["items"] # {}
     THEN IF "$ref" \in DOMAIN schema["items"]
          THEN {PropertiesOrEmpty(resolve_reference(schema["items"]["$ref"], table))}
          ELSE {PropertiesOrEmpty(schema["items"])}
     ELSE {})

\* The names under which building `properties` stores a nested type.
RECURSIVE NestedNames(_, _, _)
NestedNames(properties, table, depth) ==
    IF depth > MaxRecursion THEN {}
    ELSE UNION { IF ProducesNested(properties[i][2])
                 THEN {NestedClassName(properties[i][1])} \cup
                      UNION { NestedNames(sub, table, depth + 1) :
                                sub \in SubProperties(properties[i][2], table) }
                 ELSE {} : i \in DOMAIN properties }

ParsedProperties == pp_in.schema["properties"]
ParseReturned == pp_out # None /\ ~IsExc(pp_out.result)
LaterProperties(i) == SubSeq(ParsedProperties, i + 1, Len(ParsedProperties))

\* No property handled after the i-th stores a nested type under `name`.
NoLaterNestedType(i, name) == name \notin NestedNames(LaterProperties(i), schemas, 1)
\* No property handled after the i-th assigns the owner's attribute `name`.
NoLaterAttribute(i, name) ==
    \A j \in (i + 1)..Len(ParsedProperties) :
        /\ ParsedProperties[j][1] # name
        /\ ListValued(ParsedProperties[j][2]) => ShadowName(ParsedProperties[j][1]) # name

NestedTypesNamed(name) ==
    {k \in DOMAIN pp_out.result.nested : pp_out.result.nested[k][1] = name}
NestedAttributeNames(name) ==
    {a.target : a \in Range(At(pp_out.result.nested, name).init)}
\* One attribute per property of the schema the nested type is built from
\* (a list-valued property brings its _data shadow along).
NestedTypeBuiltFrom(name, properties) ==
    /\ Cardinality(NestedTypesNamed(name)) = 1
    /\ At(pp_out.result.nested, name).class = name
    /\ Keys(properties) \subseteq NestedAttributeNames(name)
    /\ NestedAttributeNames(name) \subseteq
          Keys(properties) \cup {ShadowName(k) : k \in Keys(properties)}

RawValues ==
    {None, [scalar |-> "v"], [dict |-> "d"], RawList(<<>>),
     RawList(<<[dict |-> "e1"]>>), RawList(<<[dict |-> "e1"], [dict |-> "e2"]>>)}

OwnerHas(name) == name \in Keys(pp_out.result.attrs)
\* The owner's attribute is the nested constructor over the raw sub-section.
IsConstructorOver(name) ==
    /\ OwnerHas(name)
    /\ At(pp_out.result.attrs, name).kind = "ctor"
    /\ \A raw \in RawValues :
          EvalExpr(At(pp_out.result.attrs, name), name :> raw) =
              Instance(pp_in.prefix_var, name, raw)
\* The owner's attribute maps the raw list to nested instances, else [].
IsListTransformOver(name) ==
    /\ OwnerHas(name)
    /\ At(pp_out.result.attrs, name).kind = "list"
    /\ At(pp_out.result.attrs, name).iter \notin {"data", ""}
    /\ \A raw \in RawValues :
          EvalExpr(At(pp_out.result.attrs, name), name :> raw) =
              IF IsList(raw)
              THEN [k \in DOMAIN raw.list |-> Instance(pp_in.prefix_var, name, raw.list[k])]
              ELSE <<>>
\* The shadow attribute holds the untransformed raw value of the property.
ShadowHoldsRaw(name) ==
    /\ OwnerHas(ShadowName(name))
    /\ \A raw \in RawValues :
          EvalExpr(At(pp_out.result.attrs, ShadowName(name)), name :> raw) = raw

ElementProperties(schema) ==
    IF "$ref" \in DOMAIN schema["items"]
    THEN PropertiesOrEmpty(resolve_reference(schema["items"]["$ref"], schemas))
    ELSE schema["items"]["properties"]

(***************************************************************************)
(* C7.  Every primitive property p of an object schema gets an attribute   *)
(* marked required exactly when p is in that object schema's required      *)
(* list.  (The code looks p up in the property's own schema instead.)      *)
(***************************************************************************)
C7_RequiredFollowsSchema ==
    ParseReturned =>
        \A i \in DOMAIN ParsedProperties :
            IsPrimitive(ParsedProperties[i][2]) =>
                (pp_out.metas[i].required <=>
                    ParsedProperties[i][1] \in
                        Range(Get(pp_in.schema, "required", <<>>)))

(***************************************************************************)
(* C8 as stated.  A property that is only a reference yields exactly one   *)
(* nested type named after the property, built from the referenced         *)
(* definition's properties, and the owner's attribute is the nested        *)
(* constructor over the raw sub-section keyed by the property name.        *)
(***************************************************************************)
ReferenceProperty(i) ==
    LET name == ParsedProperties[i][1]
        schema == ParsedProperties[i][2]
    IN /\ NestedTypeBuiltFrom(name,
              PropertiesOrEmpty(resolve_reference(schema["$ref"], schemas)))
       /\ IsConstructorOver(name)

C8_ReferenceNestedType ==
    ParseReturned =>
        \A i \in DOMAIN ParsedProperties :
            OnlyReference(ParsedProperties[i][2]) => ReferenceProperty(i)

(***************************************************************************)
(* C8 amended.  The same, for a reference-only property after which the    *)
(* same build stores no nested type under that name and assigns no owner   *)
(* attribute of that name (nested types are keyed by the bare property     *)
(* name, and a later entry replaces an earlier one).                       *)
(***************************************************************************)
C8_ReferenceNestedTypeUnlessReused ==
    ParseReturned =>
        \A i \in DOMAIN ParsedProperties :
            (/\ OnlyReference(ParsedProperties[i][2])
             /\ NoLaterNestedType(i, ParsedProperties[i][1])
             /\ NoLaterAttribute(i, ParsedProperties[i][1]))
            => ReferenceProperty(i)

\* Two differently named properties with the same reference, both built.
C8_Witness ==
    /\ ParseReturned
    /\ Len(ParsedProperties) >= 2
    /\ OnlyReference(ParsedProperties[1][2])
    /\ ParsedProperties[2][2] = ParsedProperties[1][2]
    /\ ReferenceProperty(1) /\ ReferenceProperty(2)
    /\ At(pp_out.result.nested, ParsedProperties[1][1]).class
         # At(pp_out.result.nested, ParsedProperties[2][1]).class

(***************************************************************************)
(* C9 as stated.  An array of references or of inline objects yields one   *)
(* nested type named after the property with one attribute per element     *)
(* property, a list transform named after the property (one instance per   *)
(* raw element, [] when the raw value is absent or no list), and a shadow  *)
(* attribute <property>_data holding the raw value.                        *)
(***************************************************************************)
ArrayProperty(i) ==
    LET name == ParsedProperties[i][1]
        schema == ParsedProperties[i][2]
    IN /\ NestedTypeBuiltFrom(name, ElementProperties(schema))
       /\ IsListTransformOver(name)
       /\ ShadowHoldsRaw(name)

IsObjectArray(schema) == IsArrayOfReference(schema) \/ IsArrayOfInlineObject(schema)

C9_ArrayNestedType ==
    ParseReturned =>
        \A i \in DOMAIN ParsedProperties :
            IsObjectArray(ParsedProperties[i][2]) => ArrayProperty(i)

(***************************************************************************)
(* C9 amended.  The same, for an array property after which the same build *)
(* stores no nested type under that name and assigns neither the owner's   *)
(* attribute of that name nor its <property>_data attribute.               *)
(***************************************************************************)
C9_ArrayNestedTypeUnlessReused ==
    ParseReturned =>
        \A i \in DOMAIN ParsedProperties :
            (/\ IsObjectArray(ParsedProperties[i][2])
             /\ NoLaterNestedType(i, ParsedProperties[i][1])
             /\ NoLaterAttribute(i, ParsedProperties[i][1])
             /\ NoLaterAttribute(i, ShadowName(ParsedProperties[i][1])))
            => ArrayProperty(i)

C9_Witness ==
    /\ ParseReturned
    /\ Len(ParsedProperties) >= 2
    /\ IsArrayOfReference(ParsedProperties[1][2])
    /\ IsArrayOfInlineObject(ParsedProperties[2][2])
    /\ ArrayProperty(1) /\ ArrayProperty(2)

(***************************************************************************)
(* Parameter grouping: nested_param_class_list, parse_parameters,          *)
(* get_nested_param_class_code and get_parameter_module.                   *)
(* A parameter is [name, in, schema]; its name is a token sequence, since  *)
(* parse_parameters rewrites '-' in it.                                    *)
(***************************************************************************)
\* str.replace(old, new) on a token sequence; new = "" removes the token.
Replace(s, old, new) ==
    LET mapped == [i \in DOMAIN s |-> IF s[i] = old THEN new ELSE s[i]]
    IN SelectSeq(mapped, LAMBDA t : t # "")

\* `class_name in param['in']`: a substring test between two location names;
\* no OpenAPI location (path, query, header, cookie) contains another.
LocationMatches(class_name, param_in) == class_name = param_in

RECURSIVE nested_param_class_list(_, _)
nested_param_class_list(parameters, classes_list) ==
    IF parameters = <<>> THEN classes_list
    ELSE LET attribute == Head(parameters)
         IN nested_param_class_list(
                Tail(parameters),
                IF attribute["in"] \notin Range(classes_list) /\ attribute["in"] # "query"
                THEN Append(classes_list, attribute["in"])
                ELSE classes_list)

\* One appended line f"self.{name} = data.get('{name_str}')", or the KeyError
\* of param["schema"]["type"].
ParameterLine(param) ==
    IF "schema" \notin DOMAIN param \/ "type" \notin DOMAIN param["schema"]
    THEN Raise("KeyError")
    ELSE [target |-> Text(Replace(param["name"], "-", "_")),
          value |-> DataGet(Text(param["name"]))]

parse_parameters(parameters, attributes) ==
    IF \E i \in DOMAIN parameters : IsExc(ParameterLine(parameters[i]))
    THEN Raise("KeyError")
    ELSE [attributes |->
             attributes \o [i \in DOMAIN parameters |-> ParameterLine(parameters[i])]]

\* Lines 509-528, one class per entry of classes_list.
RECURSIVE ParamClasses(_, _, _)
ParamClasses(parameters, classes, text) ==
    IF classes = <<>> THEN [text |-> text]
    ELSE Then(parse_parameters(
                  SelectSeq(parameters,
                            LAMBDA param : LocationMatches(Head(classes), param["in"])),
                  <<>>),
              LAMBDA parsed :
              ParamClasses(parameters, Tail(classes),
                           Append(text, [class |-> Head(classes),
                                         init |-> parsed.attributes])))

\* Lines 507-529; returns the new classes_list with the class texts.
ClassesWithText(parameters, classes) ==
    Then(ParamClasses(parameters, classes, <<>>),
         LAMBDA built : [classes_list |-> classes, text |-> built.text])

get_nested_param_class_code(parameters, classes_list) ==
    ClassesWithText(parameters, nested_param_class_list(parameters, classes_list))

\* f"self.{attr_name} = {attr_name}(data.get('{attr_name}'))"      line 216
LocationCall(attr_name) == [kind |-> "ctor", prefix |-> "", cls |-> attr_name, key |-> attr_name]

\* The inner loop of lines 217-219.
QueryLines(parameters) ==
    LET query == SelectSeq(parameters, LAMBDA param : param["in"] = "query")
    IN [i \in DOMAIN query |->
          [target |-> Text(query[i]["name"]), value |-> DataGet(Text(query[i]["name"]))]]

RECURSIVE get_parameter_module(_, _, _)
get_parameter_module(attributes, classes_list, parameters) ==
    IF classes_list = <<>> THEN attributes
    ELSE get_parameter_module(
             Append(attributes, [target |-> Head(classes_list),
                                 value |-> LocationCall(Head(classes_list))])
                 \o QueryLines(parameters),
             Tail(classes_list), parameters)

\* Lines 332-337 of generate_classes.
GroupParameters(parameters) ==
    Then(get_nested_param_class_code(parameters, <<>>),
         LAMBDA nested :
         [nested_class_param_text |-> nested.text,
          parameter_text |-> get_parameter_module(<<>>, nested.classes_list, parameters)])

(***************************************************************************)
(* The parameter lists explored.                                           *)
(***************************************************************************)
ParamNames == { <<"i", "d">>, <<"x", "-", "y">> }
Locations == {"path", "query", "header"}
Parameter(name, in) == [name |-> name, in |-> in, schema |-> StringNode]
AllParameters == {Parameter(n, l) : n \in ParamNames, l \in Locations}

RECURSIVE ParameterLists(_)
ParameterLists(n) ==
    IF n = 0 THEN {<<>>}
    ELSE LET shorter == ParameterLists(n - 1)
         IN shorter \cup
            { Append(l, x) : l \in {e \in shorter : Len(e) = n - 1},
                             x \in AllParameters }

\* (name, in) identifies a parameter of an operation.
GroupInputs == {l \in ParameterLists(MaxParams) : Cardinality(Range(l)) = Len(l)}

InitGroup ==
    /\ gp_parameters \in GroupInputs
    /\ gp_out = None
    /\ pp_in = None
    /\ pp_out = None
    /\ schemas = Definitions
    /\ paths = <<>>
    /\ idx = 0
    /\ status = "idle"
    /\ response = Unbound
    /\ written = <<>>
    /\ ss_in = None
    /\ ss_out = None

Group ==
    /\ status = "idle"
    /\ gp_out = None
    /\ gp_out' = GroupParameters(gp_parameters)
    /\ UNCHANGED <<schemas, paths, idx, status, response, written, pp_in, pp_out,
                   gp_parameters, ss_in, ss_out>>

NextGroup == Group

SpecGroup == InitGroup /\ [][NextGroup]_vars

(***************************************************************************)
(* C10.  Grouping yields exactly one nested type per non-query location    *)
(* in the list, named after the location and holding exactly that          *)
(* location's parameters ('-' rewritten to '_' in the attribute name);     *)
(* every query parameter yields exactly one flattened top-level attribute  *)
(* and no nested type, whatever the mix of locations.                      *)
(***************************************************************************)
Grouped == gp_out # None /\ ~IsExc(gp_out)
ParametersIn(location) ==
    SelectSeq(gp_parameters, LAMBDA param : param["in"] = location)
NonQueryLocations == {gp_parameters[i]["in"] : i \in DOMAIN gp_parameters} \ {"query"}
ClassesNamed(location) ==
    {i \in DOMAIN gp_out.nested_class_param_text :
        gp_out.nested_class_param_text[i].class = location}
FlattenedLines(param) ==
    {i \in DOMAIN gp_out.parameter_text :
        /\ gp_out.parameter_text[i].target = Text(param["name"])
        /\ gp_out.parameter_text[i].value = DataGet(Text(param["name"]))}

C10_GroupingByLocation ==
    Grouped =>
        /\ \A location \in NonQueryLocations :
              /\ Cardinality(ClassesNamed(location)) = 1
              /\ \A i \in ClassesNamed(location) :
                    gp_out.nested_class_param_text[i].init =
                        [k \in DOMAIN ParametersIn(location) |->
                            [target |-> Text(Replace(ParametersIn(location)[k]["name"],
                                                     "-", "_")),
                             value |-> DataGet(Text(ParametersIn(location)[k]["name"]))]]
        /\ \A i \in DOMAIN gp_out.nested_class_param_text :
              gp_out.nested_class_param_text[i].class \in NonQueryLocations
        /\ \A k \in DOMAIN ParametersIn("query") :
              Cardinality(FlattenedLines(ParametersIn("query")[k])) = 1

(***************************************************************************)
(* simplify_swagger_definition.  The skeleton is [dict |-> pairs],         *)
(* [list |-> <<item>>] or [str |-> kind].  Line 285 updates the resolved   *)
(* definition in place, so the definitions table is threaded through and   *)
(* returned: [result, table], or [exc, table].                             *)
(***************************************************************************)
\* dict.update(other)
RECURSIVE Update(_, _)
Update(od, other) ==
    IF other = <<>> THEN od
    ELSE Update(Put(od, other[1][1], other[1][2]), Tail(other))

RefName(reference) == Text(Last(Split(reference, "/")))

\* resolver_dict['properties'].update(prop_schema.get('properties', {})) on the
\* object the table holds.
MergeInline(table, reference, prop_schema) ==
    [table EXCEPT ![RefName(reference)] =
        [k \in DOMAIN @ |->
            IF k = "properties"
            THEN Update(@[k], Get(prop_schema, "properties", EmptyDict))
            ELSE @[k]]]

RECURSIVE simplify_swagger_definition(_, _, _)
RECURSIVE SimplifyFrom(_, _, _, _, _)

\* [self.simplify_swagger_definition(<the item schema, resolved if a reference>)]
SimplifyItems(items_schema, table, depth) ==
    Then(WithTable(IF "$ref" \in DOMAIN items_schema
                   THEN resolve_reference(items_schema["$ref"], table)
                   ELSE items_schema, table),
         LAMBDA target :
         Then(simplify_swagger_definition(target, table, depth + 1),
              LAMBDA r : [result |-> [list |-> <<r.result>>], table |-> r.table]))

\* Lines 281-286: a property carrying a reference.
SimplifyReference(prop_schema, table, depth) ==
    Then(WithTable(IF "properties" \in DOMAIN prop_schema
                   THEN PropertiesOf(resolve_reference(prop_schema["$ref"], table))
                   ELSE resolve_reference(prop_schema["$ref"], table), table),
         LAMBDA resolver_dict :
         LET merged == IF "properties" \in DOMAIN prop_schema
                       THEN MergeInline(table, prop_schema["$ref"], prop_schema)
                       ELSE table
         IN simplify_swagger_definition(merged[RefName(prop_schema["$ref"])],
                                        merged, depth + 1))

\* One property of the loop of line 280.
SimplifyProperty(prop_schema, table, depth) ==
    IF "$ref" \in DOMAIN prop_schema
    THEN SimplifyReference(prop_schema, table, depth)
    ELSE IF Get(prop_schema, "type", "") = "object"
    THEN simplify_swagger_definition(prop_schema, table, depth + 1)
    ELSE IF Get(prop_schema, "type", "") = "array" /\ "items" \in DOMAIN prop_schema
    THEN SimplifyItems(prop_schema["items"], table, depth)
    ELSE [result |-> [str |-> Get(prop_schema, "type", "")], table |-> table]

SimplifyFrom(properties, i, result, table, depth) ==
    IF i > Len(properties) THEN [result |-> [dict |-> result], table |-> table]
    ELSE Then(SimplifyProperty(properties[i][2], table, depth),
              LAMBDA r : SimplifyFrom(properties, i + 1,
                                      Put(result, properties[i][1], r.result),
                                      r.table, depth))

simplify_swagger_definition(schema, table, depth) ==
    IF depth > MaxRecursion THEN [exc |-> "RecursionError", table |-> table]
    ELSE IF "properties" \in DOMAIN schema
    THEN SimplifyFrom(schema["properties"], 1, EmptyDict, table, depth)
    ELSE IF "items" \in DOMAIN schema /\ Get(schema, "type", "") = "array"
    THEN SimplifyItems(schema["items"], table, depth)
    ELSE [result |-> [dict |-> EmptyDict], table |-> table]

(***************************************************************************)
(* itr_properties and the two class-code builders.                         *)
(***************************************************************************)
\* self.parse_properties(node['properties'], class_attributes, nested_classes, ...)
\* on the dicts built so far.
ParseInto(node, st, prefix_var, table) ==
    Then(PropertiesOf(node),
         LAMBDA found :
         parse_properties(found.properties, st.attrs, st.nested, prefix_var, table, 1))

\* The node a child of lines 391-397 is parsed from, if any.
ChildNode(child_schema, table) ==
    IF "$ref" \in DOMAIN child_schema THEN resolve_reference(child_schema["$ref"], table)
    ELSE IF "properties" \in DOMAIN child_schema THEN child_schema
    ELSE [skip |-> TRUE]

\* The loop of lines 390-397 over the children of an inline object.
RECURSIVE ItrChildren(_, _, _, _, _)
ItrChildren(children, i, st, prefix_var, table) ==
    IF i > Len(children) THEN st
    ELSE Then(IF "skip" \in DOMAIN ChildNode(children[i][2], table) THEN st
              ELSE ParseInto(ChildNode(children[i][2], table), st, prefix_var, table),
              LAMBDA st1 : ItrChildren(children, i + 1, st1, prefix_var, table))

\* Lines 398-399: after the loop the code reads schema['items']['$ref'].
ItemsOfObject(schema, table) ==
    IF "items" \notin DOMAIN schema THEN Raise("KeyError")
    ELSE IF "$ref" \notin DOMAIN schema["items"] THEN Raise("KeyError")
    ELSE resolve_reference(schema["items"]["$ref"], table)

\* Lines 403-412: the schema is taken to be a reference; the node whose
\* properties line 415 parses, and whether line 413 parses them once before.
ReferencedNode(schema, table) ==
    IF "$ref" \notin DOMAIN schema THEN Raise("KeyError")
    ELSE Then(resolve_reference(schema["$ref"], table),
              LAMBDA resolved :
              IF "type" \notin DOMAIN resolved THEN Raise("KeyError")
              ELSE IF resolved["type"] = "array" /\ "items" \in DOMAIN resolved
              THEN IF "$ref" \in DOMAIN resolved["items"]
                   THEN Then(resolve_reference(resolved["items"]["$ref"], table),
                             LAMBDA item : [node |-> item, twice |-> FALSE])
                   ELSE [node |-> resolved["items"], twice |-> TRUE]
              ELSE [node |-> resolved, twice |-> FALSE])

\* The parse_properties calls that end itr_properties (line 400, or 413/415).
ItrTail(target, st, prefix_var, table) ==
    Then(target,
         LAMBDA t :
         Then(IF t.twice THEN ParseInto(t.node, st, prefix_var, table) ELSE st,
              LAMBDA st1 : ParseInto(t.node, st1, prefix_var, table)))

itr_properties(schema, class_attributes, nested_classes, prefix_var, table) ==
    IF "properties" \in DOMAIN schema
    THEN Then(ItrChildren(schema["properties"], 1,
                          [attrs |-> class_attributes, nested |-> nested_classes],
                          prefix_var, table),
              LAMBDA st1 :
              ItrTail(Then(ItemsOfObject(schema, table),
                           LAMBDA item : [node |-> item, twice |-> FALSE]),
                      st1, prefix_var, table))
    ELSE ItrTail(ReferencedNode(schema, table),
                 [attrs |-> class_attributes, nested |-> nested_classes],
                 prefix_var, table)

\* "self.<name> = <value>" per class attribute, and the nested class codes.
AttributeLines(class_attributes) ==
    [i \in DOMAIN class_attributes |->
        [target |-> class_attributes[i][1], value |-> class_attributes[i][2]]]
ClassCodes(nested_classes) == [i \in DOMAIN nested_classes |-> nested_classes[i][2]]

\* `if not text: text = 'pass'`
OrPass(lines) == IF lines = <<>> THEN <<"pass">> ELSE lines

\* The documents explored carry no info.suffix.
ms_suffix == "MS"

\* The method generate_class_code with the module-level template it fills.
generate_class_code(file_name, schema, nested_class_param_text, parameter_str, end_point, table) ==
    Then(itr_properties(schema, EmptyDict, EmptyDict, "RequestNestedAttributes", table),
         LAMBDA st :
         [template |-> "generate_class_code",
          end_point |-> end_point,
          file_name |-> file_name,
          nested_classes |-> ClassCodes(st.nested),
          attributes |-> OrPass(AttributeLines(st.attrs)),
          nested_class_param |-> nested_class_param_text,
          parameters |-> OrPass(parameter_str),
          suffix |-> ms_suffix])

\* The method generate_response_class_code with its module-level template.
generate_response_class_code(schema, table) ==
    Then(itr_properties(schema, EmptyDict, EmptyDict, "ResponseNestedAttributes", table),
         LAMBDA st :
         [template |-> "generate_response_class_code",
          nested_classes |-> ClassCodes(st.nested),
          attributes |-> AttributeLines(st.attrs),
          suffix |-> ms_suffix])

generate_parameter_module(nested_class_param_text, attributes_param_text, file_name, end_point, resp, table) ==
    Then(generate_response_class_code(resp, table),
         LAMBDA response_code :
         [template |-> "generate_parameter_module",
          end_point |-> end_point,
          file_name |-> file_name,
          nested_class_param |-> nested_class_param_text,
          parameters |-> OrPass(attributes_param_text),
          response |-> response_code,
          suffix |-> ms_suffix])

(***************************************************************************)
(* generate_classes: the file name of an operation and one iteration of    *)
(* the loop over (path, method).                                           *)
(***************************************************************************)
UpperCase ==
    [A |-> "a", B |-> "b", C |-> "c", D |-> "d", E |-> "e", F |-> "f", G |-> "g",
     H |-> "h", I |-> "i", J |-> "j", K |-> "k", L |-> "l", M |-> "m", N |-> "n",
     O |-> "o", P |-> "p", Q |-> "q", R |-> "r", S |-> "s", T |-> "t", U |-> "u",
     V |-> "v", W |-> "w", X |-> "x", Y |-> "y", Z |-> "z"]
\* str.lower(), one character per token
Lower(s) == [i \in DOMAIN s |-> IF s[i] \in DOMAIN UpperCase THEN UpperCase[s[i]] ELSE s[i]]

\* sep.join(pieces)
RECURSIVE Join(_, _)
Join(pieces, sep) ==
    IF pieces = <<>> THEN <<>>
    ELSE IF Len(pieces) = 1 THEN pieces[1]
    ELSE pieces[1] \o <<sep>> \o Join(Tail(pieces), sep)

\* FileName without the lower() of line 319.
FileNameWithoutLower(path, method, method_count) ==
    LET pieces == Split(Tail(path), "/")
        cleaned == [i \in DOMAIN pieces |->
                       Replace(Replace(Replace(pieces[i], "{", ""), "}", ""), "-", "_")]
        joined == Join(cleaned, "_")
    IN Text(IF method_count > 1 THEN joined \o <<"_">> \o method ELSE joined)

\* Lines 315-319.  path and method are sequences of characters.
FileName(path, method, method_count) ==
    LET pieces == Split(Tail(path), "/")
        cleaned == [i \in DOMAIN pieces |->
                       Replace(Replace(Replace(pieces[i], "{", ""), "}", ""), "-", "_")]
        joined == Join(cleaned, "_")
        named == IF method_count > 1 THEN joined \o <<"_">> \o method ELSE joined
    IN Text(Lower(named))

\* d[k1][k2]...: the KeyError of the first missing key.
RECURSIVE Walk(_, _)
Walk(d, keys) ==
    IF keys = <<>> THEN d
    ELSE IF Head(keys) \notin DOMAIN d THEN Raise("KeyError")
    ELSE Walk(d[Head(keys)], Tail(keys))

JsonContent == <<"content", "application/json">>
ResponseSchemaKeys == <<"responses", "200">> \o JsonContent \o <<"schema">>
RequestSchemaKeys == <<"requestBody">> \o JsonContent \o <<"schema">>

\* response_content['schema'], resolved if it is a reference     lines 325-329
TemplateSchema(response_content, table) ==
    IF "schema" \in DOMAIN response_content
       /\ "$ref" \notin DOMAIN response_content["schema"]
    THEN response_content["schema"]
    ELSE IF "schema" \notin DOMAIN response_content THEN Raise("KeyError")
    ELSE IF "$ref" \notin DOMAIN response_content["schema"] THEN Raise("KeyError")
    ELSE resolve_reference(response_content["schema"]["$ref"], table)

\* Lines 322-331: the response template, computed and then unused; what stays
\* is the table as simplify_swagger_definition leaves it, or the exception.
ResponseTemplate(details, table) ==
    Then(WithTable(Then(Walk(details, <<"responses", "200">> \o JsonContent),
                        LAMBDA response_content : TemplateSchema(response_content, table)),
                   table),
         LAMBDA schema : simplify_swagger_definition(schema, table, 1))

\* `'requestBody' in details and 'responses' in details`          line 338
IsCombinedBranch(details) == "requestBody" \in DOMAIN details /\ "responses" \in DOMAIN details
\* `'requestBody' in details` in the else part                     line 350
IsRequestBranch(details) == "requestBody" \in DOMAIN details
\* `method == 'get' and 'requestBody' not in details`              line 358
IsParameterBranch(method, details) ==
    Text(method) = "get" /\ "requestBody" \notin DOMAIN details

\* `if 'responses' in details: response = ...` then the argument `response`
\* of line 363: the local keeps its value from an earlier iteration.   lines 360-361
ResponseArgument(details, resp) ==
    IF "responses" \in DOMAIN details THEN Walk(details, ResponseSchemaKeys) ELSE resp

Written(file_name, text) == [file |-> file_name, text |-> text]

\* Lines 339-348.
CombinedUnit(path, details, file_name, grouped, table) ==
    Then(Walk(details, RequestSchemaKeys),
         LAMBDA request_body :
         Then(generate_class_code(file_name, request_body,
                                  grouped.nested_class_param_text,
                                  grouped.parameter_text, Text(path), table),
              LAMBDA class_code :
              Then(Walk(details, ResponseSchemaKeys),
                   LAMBDA schema :
                   Then(generate_response_class_code(schema, table),
                        LAMBDA class_response_code :
                        [write |-> <<Written(file_name,
                                             <<class_code, class_response_code>>)>>]))))

\* Lines 351-357.
RequestUnit(path, details, file_name, grouped, table) ==
    Then(Walk(details, RequestSchemaKeys),
         LAMBDA request_body :
         Then(generate_class_code(file_name, request_body,
                                  grouped.nested_class_param_text,
                                  grouped.parameter_text, Text(path), table),
              LAMBDA class_code : [write |-> <<Written(file_name, <<class_code>>)>>]))

\* Lines 359-363; reading `response` before any assignment is an UnboundLocalError.
ParameterUnit(path, details, file_name, grouped, table, resp) ==
    Then(ResponseArgument(details, resp),
         LAMBDA resp1 :
         IF resp1 = Unbound THEN Raise("UnboundLocalError")
         ELSE Then(generate_parameter_module(
                       grouped.nested_class_param_text, grouped.parameter_text,
                       file_name, Text(path), resp1, table),
                   LAMBDA module :
                   [write |-> <<Written(file_name, <<module>>)>>, response |-> resp1]))

\* Lines 338-363, with the table left by lines 322-331 and the grouped
\* parameters of lines 332-337: [write] (and [response] if assigned), or [exc].
EmitUnit(path, method, details, file_name, grouped, table, resp) ==
    IF IsCombinedBranch(details)
    THEN CombinedUnit(path, details, file_name, grouped, table)
    ELSE IF IsRequestBranch(details)
    THEN RequestUnit(path, details, file_name, grouped, table)
    ELSE IF IsParameterBranch(method, details)
    THEN ParameterUnit(path, details, file_name, grouped, table, resp)
    ELSE [write |-> <<>>]

NoParameters == [nested_class_param_text |-> <<>>, parameter_text |-> <<>>]

\* The result of an iteration: what it wrote, the table and `response` after it.
Outcome(emitted, table, resp) ==
    IF IsExc(emitted) THEN [exc |-> emitted.exc, table |-> table]
    ELSE [write |-> emitted.write, table |-> table,
          response |-> Get(emitted, "response", resp)]

\* The body of the loop of lines 313-363 for one (path, method, details).
OperationBody(path, method, details, method_count, table, resp) ==
    Then(IF "responses" \in DOMAIN details
         THEN ResponseTemplate(details, table)
         ELSE [result |-> None, table |-> table],
         LAMBDA template :
         Outcome(Then(IF "parameters" \in DOMAIN details
                      THEN GroupParameters(details["parameters"])
                      ELSE NoParameters,
                      LAMBDA grouped :
                      EmitUnit(path, method, details,
                               FileName(path, method, method_count),
                               grouped, template.table, resp)),
                 template.table, resp))

\* The (path, method) pairs in the order the two loops visit them.
RECURSIVE Operations(_)
Operations(path_table) ==
    IF path_table = <<>> THEN <<>>
    ELSE LET path == path_table[1][1]
             methods == path_table[1][2]
         IN [i \in DOMAIN methods |->
                [path |-> path, method |-> methods[i][1], details |-> methods[i][2],
                 method_count |-> Len(methods)]]
            \o Operations(Tail(path_table))

(***************************************************************************)
(* The documents explored: up to MaxOps operations over the definitions    *)
(* table above, each with or without parameters, a request body and a      *)
(* responses section.                                                      *)
(***************************************************************************)
GET == <<"g", "e", "t">>
POST == <<"p", "o", "s", "t">>
MethodNames == {GET, POST}

PathNames ==
    << <<"/", "a">>,
       <<"/", "b", "/", "{", "i", "d", "}">>,
       <<"/", "c", "-", "d">>,
       <<"/", "E">> >>

JsonBody(schema) == [content |-> ("application/json" :> [schema |-> schema])]

ParameterChoices ==
    { EmptyDict,
      [parameters |-> <<Parameter(<<"i", "d">>, "path"), Parameter(<<"q">>, "query")>>] }
RequestBodyChoices ==
    { EmptyDict,
      [requestBody |-> JsonBody(RefTo("D"))],
      [requestBody |-> JsonBody(ObjectOf(<< <<"a", StringNode>> >>))] }
ResponsesChoices ==
    { EmptyDict,
      [responses |-> ("200" :> JsonBody(RefTo("R")))],
      [responses |-> ("404" :> [description |-> "not found"])] }

DetailsChoices ==
    { ps @@ rb @@ rs : ps \in ParameterChoices, rb \in RequestBodyChoices,
                       rs \in ResponsesChoices }

\* An operation of a document: its method, its details, and whether it is a
\* further method of the path of the operation before it.
OperationChoices ==
    [method : MethodNames, details : DetailsChoices, same_path : BOOLEAN]

\* The methods of one path are distinct keys of its dict.
WellFormed(ops) ==
    \A i \in DOMAIN ops :
        ops[i].same_path =>
            i > 1 /\ ~ops[i - 1].same_path /\ ops[i - 1].method # ops[i].method

\* json_data['paths'] listing ops in order; the k-th path is PathNames[k].
RECURSIVE PathTable(_, _, _)
PathTable(ops, i, table) ==
    IF i > Len(ops) THEN table
    ELSE IF ops[i].same_path
    THEN PathTable(ops, i + 1,
                   [table EXCEPT ![Len(table)][2] =
                       Append(@, <<ops[i].method, ops[i].details>>)])
    ELSE PathTable(ops, i + 1,
                   Append(table, <<PathNames[Len(table) + 1],
                                   << <<ops[i].method, ops[i].details>> >> >>))

(***************************************************************************)
(* The run of generate_classes: one step per (path, method) iteration.     *)
(***************************************************************************)
Init ==
    /\ schemas = Definitions
    /\ \E n \in 0..MaxOps :
          \E ops \in [1..n -> OperationChoices] :
              WellFormed(ops) /\ paths = PathTable(ops, 1, <<>>)
    /\ idx = 0
    /\ status = "running"
    /\ response = Unbound
    /\ written = <<>>
    /\ pp_in = None
    /\ pp_out = None
    /\ gp_parameters = <<>>
    /\ gp_out = None
    /\ ss_in = None
    /\ ss_out = None

Current == Operations(paths)[idx + 1]
CurrentBody ==
    OperationBody(Current.path, Current.method, Current.details, Current.method_count,
                  schemas, response)

\* The iteration completes: at most one file is written.
Completes(body) ==
    /\ ~IsExc(body)
    /\ schemas' = body.table
    /\ response' = body.response
    /\ written' = written \o [i \in DOMAIN body.write |-> body.write[i] @@ [by |-> idx + 1]]
    /\ idx' = idx + 1
    /\ status' = status

\* The iteration raises: nothing catches it, generate_classes ends.
Raises(body) ==
    /\ IsExc(body)
    /\ schemas' = body.table
    /\ status' = "raised"
    /\ UNCHANGED <<idx, response, written>>

Iterate ==
    /\ status = "running"
    /\ idx < Len(Operations(paths))
    /\ Completes(CurrentBody)
    /\ UNCHANGED <<paths, pp_in, pp_out, gp_parameters, gp_out, ss_in, ss_out>>

RaiseOut ==
    /\ status = "running"
    /\ idx < Len(Operations(paths))
    /\ Raises(CurrentBody)
    /\ UNCHANGED <<paths, pp_in, pp_out, gp_parameters, gp_out, ss_in, ss_out>>

\* The loops are exhausted: generate_classes returns.
Return ==
    /\ status = "running"
    /\ idx = Len(Operations(paths))
    /\ status' = "done"
    /\ UNCHANGED <<schemas, paths, idx, response, written, pp_in, pp_out,
                   gp_parameters, gp_out, ss_in, ss_out>>

Next == Iterate \/ RaiseOut \/ Return

Spec == Init /\ [][Next]_vars

(***************************************************************************)
(* Vocabulary of the claims about a run of generate_classes.               *)
(***************************************************************************)
Ops == Operations(paths)

\* Operation k is the one the run handled last: its iteration has just
\* completed, or it raised.  Every handled operation is so in some state.
RaisedIn(k) == status = "raised" /\ k = idx + 1
HandledNow(k) == (status # "raised" /\ k = idx) \/ RaisedIn(k)

IsGet(k) == Text(Ops[k].method) = "get"
HasRequestBody(k) == "requestBody" \in DOMAIN Ops[k].details
HasParameters(k) == "parameters" \in DOMAIN Ops[k].details
HasResponses(k) == "responses" \in DOMAIN Ops[k].details
Has200(k) == HasResponses(k) /\ "200" \in DOMAIN Ops[k].details["responses"]

UnitsOf(k) == {i \in DOMAIN written : written[i].by = k}
Templates(unit) == [j \in DOMAIN unit.text |-> unit.text[j].template]
OneUnitOf(k, templates) ==
    /\ Cardinality(UnitsOf(k)) = 1
    /\ \A i \in UnitsOf(k) : Templates(written[i]) = templates

\* What operation k writes when it is the only operation handled on the
\* document as loaded.
Alone(k) ==
    OperationBody(Ops[k].path, Ops[k].method, Ops[k].details, Ops[k].method_count,
                  Definitions, Unbound)
EmitsAlone(alone) == ~IsExc(alone) /\ alone.write # <<>>
SameUnit(unit, alone) ==
    /\ ~IsExc(alone)
    /\ alone.write = <<[file |-> unit.file, text |-> unit.text]>>

\* The response class of operation k's own 200 response, on the table as
\* the iteration of k leaves it.
OwnResponseCode(k) ==
    generate_response_class_code(Walk(Ops[k].details, ResponseSchemaKeys), schemas)

(***************************************************************************)
(* C1.  Every handled operation that declares a requestBody has exactly    *)
(* one unit, whatever the shape of the body schema: the combined           *)
(* request+response unit if it declares responses with a 200 entry, the    *)
(* request-only unit if it declares no responses.  (An inline object body  *)
(* raises KeyError at line 398 instead.)                                   *)
(***************************************************************************)
C1_RequestBodyUnit ==
    \A k \in 1..Len(Ops) :
        (HandledNow(k) /\ HasRequestBody(k)) =>
            /\ Has200(k) =>
                  OneUnitOf(k, <<"generate_class_code", "generate_response_class_code">>)
            /\ ~HasResponses(k) => OneUnitOf(k, <<"generate_class_code">>)

(***************************************************************************)
(* C2.  Every handled GET operation without requestBody and with           *)
(* parameters has exactly one parameter unit; its response part is built   *)
(* from the operation's own 200 response when it declares one, and the     *)
(* unit is emitted without error when it declares no responses.  (Without  *)
(* responses the local `response` is unbound, or left by an earlier        *)
(* operation.)                                                             *)
(***************************************************************************)
C2_ParameterUnit ==
    \A k \in 1..Len(Ops) :
        (HandledNow(k) /\ IsGet(k) /\ ~HasRequestBody(k) /\ HasParameters(k)) =>
            /\ Has200(k) =>
                  /\ OneUnitOf(k, <<"generate_parameter_module">>)
                  /\ \A i \in UnitsOf(k) : written[i].text[1].response = OwnResponseCode(k)
            /\ ~HasResponses(k) =>
                  /\ ~RaisedIn(k)
                  /\ OneUnitOf(k, <<"generate_parameter_module">>)

(***************************************************************************)
(* C3.  A handled operation that has no requestBody and is not a GET with  *)
(* parameters produces no unit and raises no error.  (Line 358 does not    *)
(* look at the parameters: a GET without them still reaches                *)
(* generate_parameter_module.)                                             *)
(***************************************************************************)
C3_SkippedSilently ==
    \A k \in 1..Len(Ops) :
        (HandledNow(k) /\ ~HasRequestBody(k) /\ ~(IsGet(k) /\ HasParameters(k))) =>
            UnitsOf(k) = {} /\ ~RaisedIn(k)

(***************************************************************************)
(* C4.  When the run has met an operation whose responses section has no   *)
(* 200 entry, every other operation of the document that builds on its own *)
(* still has its unit, those listed after the failing one included.        *)
(* (Nothing catches the KeyError of line 323: the run ends there.)         *)
(***************************************************************************)
C4_FailuresScopedPerOperation ==
    \A k \in 1..Len(Ops) :
        (RaisedIn(k) /\ HasResponses(k) /\ ~Has200(k)) =>
            \A other \in 1..Len(Ops) \ {k} :
                EmitsAlone(Alone(other)) => UnitsOf(other) # {}

(***************************************************************************)
(* C5.  The definitions table always equals its initial value.  (Line 285  *)
(* updates the resolved definition's properties in place.)                 *)
(***************************************************************************)
C5_DocumentNeverMutated == schemas = Definitions

(***************************************************************************)
(* C6.  Every unit written is the unit its operation writes when handled   *)
(* alone on the document as loaded: nothing computed for an earlier        *)
(* operation changes it.  (`response` survives from one iteration to the   *)
(* next, and so does the updated definitions table.)                       *)
(***************************************************************************)
C6_UnitIndependentOfEarlierOperations ==
    \A i \in DOMAIN written : SameUnit(written[i], Alone(written[i].by))

(***************************************************************************)
(* Documents whose paths differ only in letter case, in braces or in the   *)
(* separator between two segments.  Every operation declares a request     *)
(* body: a reference, whose unit is written, or an inline object, on which *)
(* itr_properties raises.                                                  *)
(***************************************************************************)
FirstSegments == { <<"orders">>, <<"O", "rders">> }
Separators == {"/", "-", "_"}
SecondSegments == { <<"id">>, <<"{", "id", "}">> }
NamedPaths ==
    { <<"/">> \o first \o <<sep>> \o second :
        first \in FirstSegments, sep \in Separators, second \in SecondSegments }

NamedDetails ==
    { [requestBody |-> JsonBody(RefTo("D"))],
      [requestBody |-> JsonBody(ObjectOf(<< <<"a", StringNode>> >>))] }

NamedOperations == [path : NamedPaths, method : MethodNames, details : NamedDetails]

\* A path is one key of the paths dict and a method one key of its dict:
\* the operations of a path are listed together, with distinct methods.
WellFormedNamed(ops) ==
    \A i, j \in DOMAIN ops :
        (i < j /\ ops[i].path = ops[j].path) =>
            j = i + 1 /\ ops[i].method # ops[j].method

\* json_data['paths'] listing ops in order.
RECURSIVE NamedPathTable(_, _, _)
NamedPathTable(ops, i, table) ==
    IF i > Len(ops) THEN table
    ELSE IF i > 1 /\ ops[i].path = ops[i - 1].path
    THEN NamedPathTable(ops, i + 1,
                        [table EXCEPT ![Len(table)][2] =
                            Append(@, <<ops[i].method, ops[i].details>>)])
    ELSE NamedPathTable(ops, i + 1,
                        Append(table, <<ops[i].path,
                                        << <<ops[i].method, ops[i].details>> >> >>))

InitNames ==
    /\ schemas = Definitions
    /\ \E n \in 1..MaxOps :
          \E ops \in [1..n -> NamedOperations] :
              WellFormedNamed(ops) /\ paths = NamedPathTable(ops, 1, <<>>)
    /\ idx = 0
    /\ status = "running"
    /\ response = Unbound
    /\ written = <<>>
    /\ pp_in = None
    /\ pp_out = None
    /\ gp_parameters = <<>>
    /\ gp_out = None
    /\ ss_in = None
    /\ ss_out = None

SpecNames == InitNames /\ [][Next]_vars

\* The identifier, character by character: after the leading '/', a brace
\* is dropped, '/' and '-' become '_', an upper-case letter its lower case.
IdentifierCharacter(c) ==
    IF c \in {"{", "}"} THEN ""
    ELSE IF c \in {"/", "-"} THEN "_"
    ELSE IF c \in DOMAIN UpperCase THEN UpperCase[c]
    ELSE c

Identifier(path, method, method_count) ==
    Text([i \in DOMAIN Tail(path) |-> IdentifierCharacter(Tail(path)[i])])
        \o (IF method_count > 1 THEN "_" \o Text(method) ELSE "")

(***************************************************************************)
(* C11.  The file name of every unit written is the identifier of its      *)
(* operation: the path's segments with braces removed and '-' replaced by  *)
(* '_', joined with '_' and lower-cased, with the method appended as a     *)
(* suffix exactly when the path declares more than one method.             *)
(***************************************************************************)
C11_EndpointIdentifier ==
    \A i \in DOMAIN written :
        written[i].file = Identifier(Ops[written[i].by].path, Ops[written[i].by].method,
                                     Ops[written[i].by].method_count)

\* /orders/{id} with GET and POST: orders_id_get and orders_id_post.
C11_Witness ==
    /\ Len(written) = 2
    /\ Ops[1].path = <<"/", "orders", "/", "{", "id", "}">>
    /\ Ops[2].path = Ops[1].path
    /\ {written[1].file, written[2].file} = {"orders_id_get", "orders_id_post"}

(***************************************************************************)
(* simplify_swagger_definition as a function of the schema it is given:    *)
(* primitives and references, and arrays and objects of them, nested.      *)
(***************************************************************************)
BaseNodes == {StringNode, IntegerNode, [type |-> "boolean"], RefTo("A"), RefTo("L")}

RECURSIVE SchemaNodes(_)
SchemaNodes(n) ==
    IF n = 0 THEN BaseNodes
    ELSE LET inner == SchemaNodes(n - 1)
         IN inner
            \cup {ArrayOf(x) : x \in inner}
            \cup {ObjectOf(<< <<"p", x>> >>) : x \in inner}
            \cup {ObjectOf(<< <<"p", x>>, <<"q", StringNode>> >>) : x \in inner}

InitSimplify ==
    /\ ss_in \in SchemaNodes(MaxNesting)
    /\ ss_out = None
    /\ schemas = Definitions
    /\ paths = <<>>
    /\ idx = 0
    /\ status = "idle"
    /\ response = Unbound
    /\ written = <<>>
    /\ pp_in = None
    /\ pp_out = None
    /\ gp_parameters = <<>>
    /\ gp_out = None

\* The call returns, or raises, and leaves the table as line 285 made it.
Simplified(r) == ss_out' = r /\ schemas' = r.table

Simplify ==
    /\ status = "idle"
    /\ ss_in # None
    /\ ss_out = None
    /\ Simplified(simplify_swagger_definition(ss_in, schemas, 1))
    /\ UNCHANGED <<paths, idx, status, response, written, pp_in, pp_out,
                   gp_parameters, gp_out, ss_in>>

NextSimplify == Simplify

SpecSimplify == InitSimplify /\ [][NextSimplify]_vars

\* The reduction of a schema node at every depth: a reference is its
\* definition's, an object a mapping of its properties', an array a
\* one-element list of its item's, a primitive its kind name.
RECURSIVE Reduced(_, _)
Reduced(schema, table) ==
    IF "$ref" \in DOMAIN schema
    THEN Reduced(resolve_reference(schema["$ref"], table), table)
    ELSE IF "properties" \in DOMAIN schema
    THEN [dict |-> [i \in DOMAIN schema["properties"] |->
                       <<schema["properties"][i][1],
                         Reduced(schema["properties"][i][2], table)>>]]
    ELSE IF Get(schema, "type", "") = "array" /\ "items" \in DOMAIN schema
    THEN [list |-> <<Reduced(schema["items"], table)>>]
    ELSE [str |-> Get(schema, "type", "")]

(***************************************************************************)
(* C12.  simplify_swagger_definition returns the reduction of the schema   *)
(* at every depth: also a primitive that is the item of an array or the    *)
(* root is reduced to its kind name.  (The code returns {} for every node  *)
(* it reaches by a call that has neither properties nor array items.)      *)
(***************************************************************************)
C12_ReducesEveryNode ==
    ss_out # None =>
        ~IsExc(ss_out) /\ ss_out.result = Reduced(ss_in, Definitions)

(***************************************************************************)
(* C13.  A property carrying a reference together with a type or           *)
(* properties is built exactly as the property carrying the reference      *)
(* alone: parse_properties gives the same attributes and nested types for  *)
(* the properties as given and with every such node cut down to its        *)
(* reference.  (Line 586 is an `if`, not an `elif`: the object and array   *)
(* branches run after the reference branch and overwrite what it stored.)  *)
(***************************************************************************)
ReferenceAlone(schema) ==
    IF "$ref" \in DOMAIN schema THEN "$ref" :> schema["$ref"] ELSE schema

WithReferencesAlone(properties) ==
    [i \in DOMAIN properties |-> <<properties[i][1], ReferenceAlone(properties[i][2])>>]

C13_ReferenceWins ==
    pp_out # None =>
        pp_out.result =
            parse_properties(WithReferencesAlone(ParsedProperties), EmptyDict, EmptyDict,
                             pp_in.prefix_var, schemas, 1)

(***************************************************************************)
(* C14.  When every property given is of no recognized shape (neither type *)
(* nor reference; an array whose non-empty items has neither type nor      *)
(* reference; an array whose object-typed items has no properties),        *)
(* parse_properties raises nothing, stores no nested type, and gives each  *)
(* property the direct-access attribute.  (Line 617 reads                  *)
(* items_schema["type"] and line 620 items_schema["properties"].)          *)
(***************************************************************************)
IsUnrecognizedItem(items_schema) ==
    /\ DOMAIN items_schema # {}
    /\ "$ref" \notin DOMAIN items_schema
    /\ \/ "type" \notin DOMAIN items_schema
       \/ items_schema["type"] = "object" /\ "properties" \notin DOMAIN items_schema

IsUnrecognized(schema) ==
    /\ "$ref" \notin DOMAIN schema
    /\ \/ "type" \notin DOMAIN schema
       \/ /\ schema["type"] = "array" /\ "items" \in DOMAIN schema
          /\ IsUnrecognizedItem(schema["items"])

C14_UnrecognizedDegrades ==
    (/\ pp_out # None
     /\ \A i \in DOMAIN ParsedProperties : IsUnrecognized(ParsedProperties[i][2]))
    => /\ ~IsExc(pp_out.result)
       /\ pp_out.result.nested = <<>>
       /\ pp_out.result.attrs =
             [i \in DOMAIN ParsedProperties |->
                 <<ParsedProperties[i][1], DataGet(ParsedProperties[i][1])>>]

(***************************************************************************)
(* Definitions that refer to each other: each definition is an object      *)
(* whose one property `next` is a reference to a definition, or a string.  *)
(* parse_properties and simplify_swagger_definition are given an object    *)
(* with one property that refers to a definition of the table.             *)
(***************************************************************************)
LinkNames == {"N1", "N2", "N3"}
NoLink == "string"

LinkedDefinitions(next) ==
    [name \in LinkNames |->
        ObjectOf(<< <<"next", IF next[name] = NoLink THEN StringNode
                              ELSE RefTo(next[name])>> >>)]

InitLinked ==
    /\ \E next \in [LinkNames -> LinkNames \cup {NoLink}] :
          schemas = LinkedDefinitions(next)
    /\ \E start \in LinkNames :
          /\ pp_in = [schema |-> ObjectOf(<< <<"p", RefTo(start)>> >>),
                      prefix_var |-> "RequestNestedAttributes"]
          /\ ss_in = ObjectOf(<< <<"p", RefTo(start)>> >>)
    /\ pp_out = None
    /\ ss_out = None
    /\ paths = <<>>
    /\ idx = 0
    /\ status = "idle"
    /\ response = Unbound
    /\ written = <<>>
    /\ gp_parameters = <<>>
    /\ gp_out = None

NextLinked == ParseProperties \/ Simplify

SpecLinked == InitLinked /\ [][NextLinked]_vars

\* The definition that `name` refers to, and the one reached after n references.
LinkOf(name) ==
    IF "$ref" \in DOMAIN schemas[name]["properties"][1][2]
    THEN RefName(schemas[name]["properties"][1][2]["$ref"])
    ELSE NoLink

RECURSIVE Reached(_, _)
Reached(name, n) ==
    IF n = 0 \/ name = NoLink THEN name ELSE Reached(LinkOf(name), n - 1)

\* Some definition is met twice on the way from the property given.
RevisitsAName ==
    Reached(RefName(ss_in["properties"][1][2]["$ref"]), Cardinality(LinkNames)) # NoLink

\* An error of the builder itself, not the interpreter's RecursionError.
StopsOnRevisit(r) == IsExc(r) /\ r.exc # "RecursionError"

(***************************************************************************)
(* C15.  On definitions that refer to each other in a cycle,               *)
(* parse_properties and simplify_swagger_definition stop with an error of  *)
(* their own when a definition is met again, and not by running into the   *)
(* interpreter's recursion limit; without a cycle they return.  (Neither   *)
(* keeps the names on its path: the recursion ends with RecursionError.)   *)
(***************************************************************************)
C15_StopsOnCycle ==
    /\ pp_out # None =>
          IF RevisitsAName THEN StopsOnRevisit(pp_out.result) ELSE ~IsExc(pp_out.result)
    /\ ss_out # None =>
          IF RevisitsAName THEN StopsOnRevisit(ss_out) ELSE ~IsExc(ss_out)

(***************************************************************************)
(* C16.  No unit is written to the file of another operation's unit: the   *)
(* (path, method) pairs of one document get file names of their own.       *)
(* (Braces are dropped and '/', '-' and '_' all become '_', and the name   *)
(* is lowercased, so paths that differ only in these share one file name.) *)
(***************************************************************************)
C16_NoUnitOverwritten ==
    \A i, j \in DOMAIN written :
        written[i].by # written[j].by => written[i].file # written[j].file

====
